---------------------------- MODULE Spec2Model ----------------------------
(***************************************************************************)
(* The four one-shot patch scripts of the repository, as state machines    *)
(* over the contents of the two files they overwrite, and the fixMojibake  *)
(* helper that the replacement block carries.                              *)
(*                                                                         *)
(*   lib/translations.ts            fix_translate_block.py,                *)
(*                                  patch_translate.py, temp.py            *)
(*   app/modals/vendor-account.tsx  fix_vendor.py                          *)
(*                                                                         *)
(* A file's text is a sequence of symbols.  For translations.ts a symbol   *)
(* is a run of characters: "E" is 'export function ', "T" is 'translate',  *)
(* "R" is 'registerTranslation', "O", "P" and "F" are the rest of the old  *)
(* block, of patch_translate.py's new block and of fix_translate_block's   *)
(* new block after 'export function translate', and "x" is any other text. *)
(* For vendor-account.tsx "M" is the text 'import {', "\n" is a line break *)
(* and the other symbols are other text.  A JavaScript string is its       *)
(* sequence of UTF-16 code units.                                          *)
(***************************************************************************)
EXTENDS Integers, Sequences, FiniteSets

VARIABLES
    file,       \* lib/translations.ts: its text on disk
    prev,       \* its text when the latest run started (p.read_text)
    script,     \* the script of the latest run, "none" before any
    out,        \* how the latest run ended: the line printed, or "ValueError"
    wrote,      \* whether the latest run called p.write_text
    prevScript, \* script and outcome of the run before the latest
    prevOut,
    vfile,      \* app/modals/vendor-account.tsx: its text on disk
    vprev,      \* its text when the latest fix_vendor.py run started
    vout,       \* how the latest fix_vendor.py run ended
    vprevOut,   \* how the run before it ended
    value,      \* fixMojibake: the argument of the first call
    result,     \* what the first call returned
    result2,    \* what the call on that result returned
    mpc         \* "init", "once" (called), "twice" (called on its own result)

tvars == <<file, prev, script, out, wrote, prevScript, prevOut>>
vvars == <<vfile, vprev, vout, vprevOut>>
mvars == <<value, result, result2, mpc>>
vars == <<tvars, vvars, mvars>>

\* Bounds of the model.
MaxPieces == 4
MaxVendorLen == 5
MaxStrLen == 4

----------------------------------------------------------------------------
(* Python str / list primitives *)

\* sub occurs in text at (1-based) position p
OccursAt(text, sub, p) ==
    /\ p >= 1
    /\ p + Len(sub) - 1 <= Len(text)
    /\ \A k \in 1..Len(sub) : text[p + k - 1] = sub[k]

Min(S) == CHOOSE m \in S : \A n \in S : m <= n

\* str.index(sub) without its start argument
IndexNoStart(text, sub, from) ==
    LET ps == {p \in 1..Len(text) : OccursAt(text, sub, p)}
    IN  IF ps = {} THEN 0 ELSE Min(ps)

\* str.index(sub, start): the least position >= from where sub occurs;
\* 0 stands for the ValueError that str.index raises when there is none.
Index(text, sub, from) ==
    LET ps == {p \in from..Len(text) : OccursAt(text, sub, p)}
    IN  IF ps = {} THEN 0 ELSE Min(ps)

\* text[:p] and text[p:], for the 1-based position p of the first symbol kept
\* by the second
Upto(text, p) == SubSeq(text, 1, p - 1)
From(text, p) == SubSeq(text, p, Len(text))

\* sub in text
Contains(text, sub) == \E p \in 1..Len(text) : OccursAt(text, sub, p)

RECURSIVE ReplaceFrom(_, _, _, _)
ReplaceFrom(text, old, new, p) ==
    IF p > Len(text) THEN <<>>
    ELSE IF OccursAt(text, old, p)
         THEN new \o ReplaceFrom(text, old, new, p + Len(old))
         ELSE <<text[p]>> \o ReplaceFrom(text, old, new, p + 1)

\* str.replace(old, new, 1)
ReplaceFirst(text, old, new) ==
    LET p == Index(text, old, 1)
    IN  IF p = 0 THEN text
        ELSE Upto(text, p) \o new \o From(text, p + Len(old))

\* str.replace(old, new): every occurrence, leftmost first, not overlapping
Replace(text, old, new) == ReplaceFrom(text, old, new, 1)

----------------------------------------------------------------------------
(* lib/translations.ts and the three scripts that patch it *)

StartMarker == <<"E", "T">>
EndMarker == <<"E", "R">>

\* a replacement that starts 'function translate', without 'export '
new_block_no_export == <<"T", "F">>

\* fix_translate_block.py's replacement: starts with the start marker
new_block == <<"E", "T", "F">>

\* patch_translate.py / temp.py: the block looked for and its replacement
old == <<"E", "T", "O">>
new == <<"E", "T", "P">>

Pieces == {<<"x">>, <<"E">>, StartMarker, EndMarker, old}

RECURSIVE FilesUpTo(_)
FilesUpTo(n) ==
    IF n = 0 THEN {<<>>}
    ELSE LET s == FilesUpTo(n - 1)
         IN  s \cup {f \o q : f \in s, q \in Pieces}

\* text[:start] + new_block + text[end + len(end marker):]
SpliceDropEnd(text, start, end) ==
    Upto(text, start) \o new_block \o From(text, end + Len(EndMarker))

\* text[:start] + new_block + text[end:]
Splice(text, start, end) ==
    Upto(text, start) \o new_block \o From(text, end)

\* A run's effect: what is on disk afterwards, how it ended, whether it wrote.
Ended(text, how, w) == [text |-> text, out |-> how, wrote |-> w]

FixTranslateBlock(text) ==
    LET start == Index(text, StartMarker, 1)
        end == IF start = 0 THEN 0 ELSE Index(text, EndMarker, start)
    IN  IF start = 0 \/ end = 0
        THEN Ended(text, "ValueError", FALSE)
        ELSE Ended(Splice(text, start, end), "translate block rewritten", TRUE)

PatchTranslate(text) ==
    IF ~Contains(text, old)
    THEN Ended(text, "old block not found", FALSE)
    ELSE Ended(Replace(text, old, new), "replaced", TRUE)

\* temp.py without its two marker lookups
TempAlwaysPrints(text) == Ended(text, "please rewrite manually", FALSE)

Temp(text) ==
    LET start == Index(text, StartMarker, 1)
        end == IF start = 0 THEN 0 ELSE Index(text, EndMarker, start)
    IN  IF start = 0 \/ end = 0
        THEN Ended(text, "ValueError", FALSE)
        ELSE Ended(text, "please rewrite manually", FALSE)

Ran(name, r) ==
    /\ prev' = file
    /\ file' = r.text
    /\ out' = r.out
    /\ wrote' = r.wrote
    /\ script' = name
    /\ prevScript' = script
    /\ prevOut' = out
    /\ UNCHANGED <<vvars, mvars>>

RunFixTranslateBlock == Ran("fix_translate_block", FixTranslateBlock(file))
RunPatchTranslate == Ran("patch_translate", PatchTranslate(file))
RunTemp == Ran("temp", Temp(file))

VendorIdle ==
    /\ vfile = <<>>
    /\ vprev = <<>>
    /\ vout = "none"
    /\ vprevOut = "none"

MojibakeIdle ==
    /\ value = <<>>
    /\ result = <<>>
    /\ result2 = <<>>
    /\ mpc = "init"

TranslationsIdle ==
    /\ file = <<>>
    /\ prev = <<>>
    /\ script = "none"
    /\ out = "none"
    /\ wrote = FALSE
    /\ prevScript = "none"
    /\ prevOut = "none"

Init ==
    /\ file \in FilesUpTo(MaxPieces)
    /\ prev = file
    /\ script = "none"
    /\ out = "none"
    /\ wrote = FALSE
    /\ prevScript = "none"
    /\ prevOut = "none"
    /\ VendorIdle
    /\ MojibakeIdle

Next ==
    \/ RunFixTranslateBlock
    \/ RunPatchTranslate
    \/ RunTemp

Spec == Init /\ [][Next]_vars

----------------------------------------------------------------------------
(* Claims about the scripts that patch lib/translations.ts *)

\* p is where the start marker first occurs in text
FirstStart(text, p) ==
    /\ OccursAt(text, StartMarker, p)
    /\ \A q \in 1..(p - 1) : ~OccursAt(text, StartMarker, q)

\* e is where the end marker first occurs at or after position p
FirstEndFrom(text, p, e) ==
    /\ e >= p
    /\ OccursAt(text, EndMarker, e)
    /\ \A q \in p..(e - 1) : ~OccursAt(text, EndMarker, q)

\* either marker is missing: no start marker, or no end marker at or after
\* the first start marker
MarkerMissing(text) ==
    \A p \in 1..Len(text) :
        FirstStart(text, p) =>
            \A e \in p..Len(text) : ~OccursAt(text, EndMarker, e)

\* C1: when the start marker occurs and the end marker occurs at or after
\* its first position, fix_translate_block.py leaves on disk the text before
\* the first start marker, then the replacement block, then the text from
\* that end marker onward, the end marker included.
C1_BlockReplaced ==
    script = "fix_translate_block" =>
        \A p \in 1..Len(prev) : \A e \in 1..Len(prev) :
            (FirstStart(prev, p) /\ FirstEndFrom(prev, p, e)) =>
                /\ out = "translate block rewritten"
                /\ file = SubSeq(prev, 1, p - 1) \o new_block
                              \o SubSeq(prev, e, Len(prev))
                /\ OccursAt(file, EndMarker, p + Len(new_block))

\* a run of fix_translate_block.py on a text with an end marker both before
\* and after the start marker and text in front of the start marker
C1_Witness ==
    /\ script = "fix_translate_block"
    /\ out = "translate block rewritten"
    /\ \E p \in 2..Len(prev) : \E e \in 1..Len(prev) :
          /\ FirstStart(prev, p)
          /\ FirstEndFrom(prev, p, e)
          /\ e > p + Len(StartMarker)
          /\ \E q \in 1..(p - 1) : OccursAt(prev, EndMarker, q)

\* C2: when either marker is missing, fix_translate_block.py ends in an
\* error, writes nothing, and the file is as it was.
C2_MissingMarkerNoWrite ==
    (script = "fix_translate_block" /\ MarkerMissing(prev)) =>
        /\ out = "ValueError"
        /\ ~wrote
        /\ file = prev

\* a run on a text that has the start marker and then no end marker, only
\* one in front of it
C2_Witness ==
    /\ script = "fix_translate_block"
    /\ MarkerMissing(prev)
    /\ Contains(prev, StartMarker)
    /\ Contains(prev, EndMarker)
    /\ out = "ValueError"

\* the positions of prev where the old block occurs
OldAt == {p \in 1..Len(prev) : OccursAt(prev, old, p)}

\* how far the symbol at position p of prev has moved once every old block
\* that starts before it has become a new block
Shift(p) == Cardinality({q \in OldAt : q < p}) * (Len(new) - Len(old))

\* C6: patch_translate.py reports 'old block not found' and writes nothing
\* when the old block does not occur; when it occurs, every occurrence has
\* become the new block, everything else is kept, the result is written and
\* 'replaced' is reported.
C6_GuardedReplaceAll ==
    script = "patch_translate" =>
        IF OldAt = {}
        THEN out = "old block not found" /\ ~wrote /\ file = prev
        ELSE /\ out = "replaced"
             /\ wrote
             /\ Len(file) = Len(prev) + Cardinality(OldAt) * (Len(new) - Len(old))
             /\ \A q \in OldAt : OccursAt(file, new, q + Shift(q))
             /\ \A p \in 1..Len(prev) :
                    (\A q \in OldAt : p < q \/ p >= q + Len(old)) =>
                        file[p + Shift(p)] = prev[p]

\* a run of patch_translate.py on a text that holds the old block twice
C6_Witness ==
    /\ script = "patch_translate"
    /\ out = "replaced"
    /\ Cardinality(OldAt) >= 2
    /\ Len(prev) > 2 * Len(old)

\* C9 as stated: every run of temp.py, whatever the file holds, writes
\* nothing and prints 'please rewrite manually'.
C9_AlwaysAsksManual ==
    script = "temp" =>
        /\ ~wrote
        /\ file = prev
        /\ out = "please rewrite manually"

\* C9 amended: every run of temp.py writes nothing; it prints 'please
\* rewrite manually' exactly when both marker lookups succeed, and ends in
\* the lookup's ValueError, without printing, when a marker is missing.
C9_NoWriteAsksWhenMarkersFound ==
    script = "temp" =>
        /\ ~wrote
        /\ file = prev
        /\ out = IF MarkerMissing(prev) THEN "ValueError"
                 ELSE "please rewrite manually"

\* a run of temp.py on a text with a start marker and no end marker after it
C9_Witness ==
    /\ script = "temp"
    /\ Contains(prev, StartMarker)
    /\ MarkerMissing(prev)
    /\ out = "ValueError"
    /\ file = prev

\* C10: a second run of fix_translate_block.py, right after one that
\* succeeded, succeeds too and writes the text the first run wrote.
C10_SecondRunSame ==
    (/\ prevScript = "fix_translate_block"
     /\ prevOut = "translate block rewritten"
     /\ script = "fix_translate_block") =>
        /\ out = "translate block rewritten"
        /\ wrote
        /\ file = prev

\* two runs in a row, the first of which changed the text in front of an
\* end marker that is followed by a further start marker
C10_Witness ==
    /\ prevScript = "fix_translate_block"
    /\ prevOut = "translate block rewritten"
    /\ script = "fix_translate_block"
    /\ out = "translate block rewritten"
    /\ \E p \in 1..Len(file) :
          /\ FirstStart(file, p)
          /\ \E q \in (p + 1)..Len(file) : OccursAt(file, StartMarker, q)
    /\ Len(file) > Len(new_block) + Len(EndMarker)

----------------------------------------------------------------------------
(* app/modals/vendor-account.tsx and fix_vendor.py *)

VendorChars == {"M", "\n", "x"}

\* the line 'import {'
Marker == <<"M">>

\* the replacement header split at its line breaks: three import lines, the
\* third of which starts with the text 'import {' and goes on, and the empty
\* string after the last line break
new_header == << <<"h1">>, <<"h2">>, <<"M", "h3">>, <<>> >>

RECURSIVE SplitFrom(_, _, _)
SplitFrom(text, i, cur) ==
    IF i > Len(text) THEN (IF cur = <<>> THEN <<>> ELSE <<cur>>)
    ELSE IF text[i] = "\n"
         THEN <<cur>> \o SplitFrom(text, i + 1, <<>>)
         ELSE SplitFrom(text, i + 1, Append(cur, text[i]))

\* str.splitlines(): the lines without their line breaks; a line break at
\* the end of the text starts no further line
SplitLines(text) == SplitFrom(text, 1, <<>>)

RECURSIVE JoinLines(_)
\* '\n'.join(lines)
JoinLines(lines) ==
    IF lines = <<>> THEN <<>>
    ELSE IF Len(lines) = 1 THEN lines[1]
    ELSE lines[1] \o <<"\n">> \o JoinLines(Tail(lines))

\* list.index(x): the first position of x, 0 for the ValueError raised when
\* x is not in the list
ListIndex(lines, x) ==
    LET ps == {i \in 1..Len(lines) : lines[i] = x}
    IN  IF ps = {} THEN 0 ELSE Min(ps)

FixVendor(text) ==
    LET lines == SplitLines(text)
        second_import == ListIndex(lines, Marker)
        rest == SubSeq(lines, second_import + 1, Len(lines))
        new_lines == new_header \o rest
    IN  IF second_import = 0
        THEN [text |-> text, out |-> "ValueError"]
        ELSE [text |-> JoinLines(new_lines), out |-> "rewrote header"]

RunFixVendor ==
    /\ vprev' = vfile
    /\ vfile' = FixVendor(vfile).text
    /\ vout' = FixVendor(vfile).out
    /\ vprevOut' = vout
    /\ UNCHANGED <<tvars, mvars>>

RECURSIVE SeqsUpTo(_, _)
SeqsUpTo(S, n) ==
    IF n = 0 THEN {<<>>}
    ELSE LET s == SeqsUpTo(S, n - 1)
         IN  s \cup {Append(f, c) : f \in s, c \in S}

InitVendor ==
    /\ vfile \in SeqsUpTo(VendorChars, MaxVendorLen)
    /\ vprev = vfile
    /\ vout = "none"
    /\ vprevOut = "none"
    /\ TranslationsIdle
    /\ MojibakeIdle

NextVendor == RunFixVendor

SpecVendor == InitVendor /\ [][NextVendor]_vars

----------------------------------------------------------------------------
(* Claims about fix_vendor.py *)

\* the positions of the lines of text that are exactly the marker line
MarkerLines(text) ==
    {i \in 1..Len(SplitLines(text)) : SplitLines(text)[i] = Marker}

\* C3: when the marker line occurs first at line i and next at line j, the
\* text written is the replacement header followed by the lines after j:
\* everything through the second marker line is dropped.
C3_DropThroughSecondMarker ==
    vout # "none" =>
        \A i \in MarkerLines(vprev) : \A j \in MarkerLines(vprev) :
            (/\ i < j
             /\ \A k \in MarkerLines(vprev) : k >= i /\ (k <= i \/ k >= j)) =>
                /\ vout = "rewrote header"
                /\ vfile = JoinLines(new_header \o
                              SubSeq(SplitLines(vprev), j + 1,
                                     Len(SplitLines(vprev))))

\* C4: when the marker line occurs fewer than twice, the run ends in a
\* marker-not-found failure and the file is as it was.
C4_FewerThanTwoFails ==
    (vout # "none" /\ Cardinality(MarkerLines(vprev)) < 2) =>
        /\ vout = "ValueError"
        /\ vfile = vprev

\* C5: a run on the output of a successful run, in which the marker line
\* occurs once, ends in marker-not-found and leaves the file as the first
\* run wrote it.
C5_SecondRunFails ==
    (/\ vprevOut = "rewrote header"
     /\ vout # "none"
     /\ Cardinality(MarkerLines(vprev)) = 1) =>
        /\ vout = "ValueError"
        /\ vfile = vprev

----------------------------------------------------------------------------
(* fixMojibake, the helper inside the replacement block *)

\* the range of the regular expression in hasArabic: U+0600..U+06FF
ArabicFirst == 1536
ArabicLast == 1791

\* U+FFFD, which the decoder puts in place of bytes that are not UTF-8
ReplacementChar == 65533

\* Code units the argument is drawn from: 'h'; the bytes D8 A8 (U+0628 in
\* UTF-8), DB 98 (U+06D8), DA (DA A8 is U+06A8), C3 (C3 A8 is U+00E8) and
\* FF (never valid), each as a character of its own; the Arabic characters
\* U+0628, U+06D8 and U+06A8.
Chars == {104, 216, 168, 219, 152, 218, 195, 255, 1576, 1752, 1704}

\* Buffer.from(value, 'binary'): one byte per code unit, its low eight bits
Latin1Bytes(s) == [i \in 1..Len(s) |-> s[i] % 256]

IsCont(b, i, lo, hi) == i <= Len(b) /\ b[i] >= lo /\ b[i] <= hi

\* the UTF-16 code units of code point cp
CodeUnits(cp) ==
    IF cp < 65536 THEN <<cp>>
    ELSE <<55296 + ((cp - 65536) \div 1024), 56320 + ((cp - 65536) % 1024)>>

RECURSIVE DecodeFrom(_, _)
\* buf.toString('utf8') from byte i on: a well-formed sequence gives its
\* code point, and each maximal ill-formed run of bytes gives one U+FFFD
DecodeFrom(b, i) ==
    IF i > Len(b) THEN <<>>
    ELSE LET c == b[i]
             lo2 == IF c = 224 THEN 160 ELSE IF c = 240 THEN 144 ELSE 128
             hi2 == IF c = 237 THEN 159 ELSE IF c = 244 THEN 143 ELSE 191
         IN
         IF c < 128 THEN <<c>> \o DecodeFrom(b, i + 1)
         ELSE IF c >= 194 /\ c <= 223
         THEN IF IsCont(b, i + 1, 128, 191)
              THEN <<(c - 192) * 64 + (b[i + 1] - 128)>> \o DecodeFrom(b, i + 2)
              ELSE <<ReplacementChar>> \o DecodeFrom(b, i + 1)
         ELSE IF c >= 224 /\ c <= 239
         THEN IF ~IsCont(b, i + 1, lo2, hi2)
              THEN <<ReplacementChar>> \o DecodeFrom(b, i + 1)
              ELSE IF ~IsCont(b, i + 2, 128, 191)
              THEN <<ReplacementChar>> \o DecodeFrom(b, i + 2)
              ELSE <<(c - 224) * 4096 + (b[i + 1] - 128) * 64 + (b[i + 2] - 128)>>
                       \o DecodeFrom(b, i + 3)
         ELSE IF c >= 240 /\ c <= 244
         THEN IF ~IsCont(b, i + 1, lo2, hi2)
              THEN <<ReplacementChar>> \o DecodeFrom(b, i + 1)
              ELSE IF ~IsCont(b, i + 2, 128, 191)
              THEN <<ReplacementChar>> \o DecodeFrom(b, i + 2)
              ELSE IF ~IsCont(b, i + 3, 128, 191)
              THEN <<ReplacementChar>> \o DecodeFrom(b, i + 3)
              ELSE CodeUnits((c - 240) * 262144 + (b[i + 1] - 128) * 4096
                                 + (b[i + 2] - 128) * 64 + (b[i + 3] - 128))
                       \o DecodeFrom(b, i + 4)
         ELSE <<ReplacementChar>> \o DecodeFrom(b, i + 1)

\* Buffer.from(value, 'binary').toString('utf8')
Decoded(s) == DecodeFrom(Latin1Bytes(s), 1)

\* the test of that regular expression on s
HasArabic(s) == \E i \in 1..Len(s) : s[i] >= ArabicFirst /\ s[i] <= ArabicLast

\* fixMojibake without the hasArabic test
fixMojibakeNoTest(s) == Decoded(s)

\* Neither Buffer.from nor toString throws on any string, so the catch
\* block is never entered.
fixMojibake(s) ==
    LET decoded == Decoded(s)
        hasArabic == HasArabic(decoded)
    IN  IF hasArabic THEN decoded ELSE s

CallFixMojibake ==
    /\ mpc = "init"
    /\ result' = fixMojibake(value)
    /\ mpc' = "once"
    /\ UNCHANGED <<value, result2, tvars, vvars>>

CallFixMojibakeAgain ==
    /\ mpc = "once"
    /\ result2' = fixMojibake(result)
    /\ mpc' = "twice"
    /\ UNCHANGED <<value, result, tvars, vvars>>

InitMojibake ==
    /\ value \in SeqsUpTo(Chars, MaxStrLen)
    /\ result = <<>>
    /\ result2 = <<>>
    /\ mpc = "init"
    /\ TranslationsIdle
    /\ VendorIdle

NextMojibake ==
    \/ CallFixMojibake
    \/ CallFixMojibakeAgain

SpecMojibake == InitMojibake /\ [][NextMojibake]_vars

----------------------------------------------------------------------------
(* Claims about fixMojibake *)

\* the bytes b[i..j] are one well-formed UTF-8 sequence of a code point in
\* U+0600..U+06FF: D8..DB followed by a continuation byte
ArabicBytes(b, i) ==
    /\ i + 1 <= Len(b)
    /\ b[i] \in 216..219
    /\ b[i + 1] \in 128..191

C8_IdempotentOnCorrectText ==
    /\ (mpc # "init" /\ \E i \in 1..Len(value) :
            value[i] >= ArabicFirst /\ value[i] <= ArabicLast)
          => result = value
    /\ mpc = "twice" => result2 = result

=============================================================================
